---- MODULE Spec2Model ----
(***************************************************************************)
(* Model of the retry package (src/src/retry/api.py, compat.py).          *)
(*                                                                         *)
(* One behaviour of the model is one use of the public API: either        *)
(*   retry_call(f, f_args, f_kwargs, policy...)                            *)
(* or                                                                      *)
(*   g = retry(policy...)(f);  g(args...)  [; what g returned, called]     *)
(* followed by the loop of __retry_internal.                               *)
(*                                                                         *)
(* Numbers are integers (the annotations of RetryConfig are int); an       *)
(* Optional value is a set with at most one element (None is {}).          *)
(***************************************************************************)
EXTENDS Integers, Sequences, FiniteSets, TLC

\* ------------------------------------------------------------- bounds
MaxTries   == 3   \* largest finite tries argument enumerated
MaxPrefix  == 2   \* longest scripted prefix of failures of the callable
MaxDelay   == 2   \* largest initial delay enumerated
MaxBackoff == 2   \* largest backoff enumerated
MaxCap     == 2   \* largest max_delay enumerated
MaxJitter  == 1   \* largest fixed jitter / lower end of a jitter range
MaxRuns    == 2   \* most calls made through one decorated function

\* ------------------------------------------------------------- values
None    == {}
Some(x) == {x}
IsNone(o) == o = {}
the(o)  == CHOOSE x \in o : TRUE

\* Python truthiness of an Optional[int]: None and 0 are falsy.
Truthy(o) == ~IsNone(o) /\ the(o) # 0

min(a, b) == IF a <= b THEN a ELSE b

\* Exception classes the model distinguishes; all derive from Exception.
FailureTypes == {"ValueError", "KeyError"}

\* isinstance(e, cls) for the classes above.
IsSubclass(t, c) == t = c \/ c = "Exception"

\* `except config["exceptions"] as e` : does the clause catch an exception of type t
Matches(t, exceptions) == \E c \in exceptions : IsSubclass(t, c)

NoExc == [type |-> "none", attempt |-> 0, origin |-> "none"]
Exc(t, k, o) == [type |-> t, attempt |-> k, origin |-> o]

Running     == [status |-> "running",  value |-> "",  exc |-> NoExc]
Returned(v) == [status |-> "returned", value |-> v,   exc |-> NoExc]
Raised(e)   == [status |-> "raised",   value |-> "",  exc |-> e]

\* ------------------------------------------------------------- inputs
\* The callable f: its k-th invocation raises prefix[k] while k <= Len(prefix),
\* and does `rest` ("ok" = return the value "ok", else raise that type) afterwards.
RECURSIVE SeqsUpTo(_, _)
SeqsUpTo(S, n) ==
    IF n = 0 THEN {<<>>}
    ELSE LET shorter == SeqsUpTo(S, n - 1)
         IN shorter \cup {Append(s, x) : s \in {t \in shorter : Len(t) = n - 1}, x \in S}

Callables == [prefix : SeqsUpTo(FailureTypes, MaxPrefix), rest : FailureTypes \cup {"ok"}]

Outcome(fn, k) == IF k <= Len(fn.prefix) THEN fn.prefix[k] ELSE fn.rest

\* The jitter argument: a number j (num = TRUE, lo = hi = j) or a tuple (lo, hi).
Number(j)    == [num |-> TRUE,  lo |-> j,  hi |-> j]
Range(lo, hi) == [num |-> FALSE, lo |-> lo, hi |-> hi]

VARIABLES
    f,           \* the callable (its scripted behaviour)
    entry,       \* "retry_call" or "retry": the API used
    params,      \* the keyword arguments given to retry / retry_call
    args,        \* positional arguments given by the user (Optional tuple)
    kwargs,      \* keyword arguments given by the user (Optional dict, as a tuple)
    pc,          \* position: start, decorated, wrapped, loop, done
    config,      \* the RetryConfig built at api.py:100 / api.py:149 (Optional)
    f_args,      \* __retry_internal's f_args
    f_kwargs,    \* __retry_internal's f_kwargs
    _delay,      \* __retry_internal's _delay
    _tries,      \* __retry_internal's _tries
    calls,       \* the invocations of f made so far: the arguments of each
    raised,      \* the exceptions raised so far by the call expression of api.py:56
    sleeps,      \* the durations passed to time.sleep so far
    warnings,    \* the logger.warning notifications so far: [exc, delay]
    events,      \* the order of the observable events of the run
    decorated,   \* result of the call through the decorated name (entry = "retry")
    runs,        \* the earlier, finished runs of __retry_internal: their final locals
    result       \* result of __retry_internal

vars == <<f, entry, params, args, kwargs, pc, config, f_args, f_kwargs, _delay, _tries,
          calls, raised, sleeps, warnings, events, decorated, runs, result>>

inputs == <<f, entry, params, args, kwargs>>
locals == <<f_args, f_kwargs, _delay, _tries>>
history == <<calls, raised, sleeps, warnings, events>>

\* ------------------------------------------------------------- Init
ExceptionArgs == {{"Exception"}, {"ValueError"}}
TriesArgs     == {-1, 0} \cup (1 .. MaxTries)

Params(ex, t, d, md, b, j, lg) ==
    [exceptions |-> ex, tries |-> t, delay |-> d, max_delay |-> md,
     backoff |-> b, jitter |-> j, logger |-> lg]

\* Policies that vary what the attempt counting depends on.
AttemptParams ==
    {Params(ex, t, 1, None, 2, Number(0), lg) :
        ex \in ExceptionArgs, t \in TriesArgs, lg \in BOOLEAN}

\* Policies that vary what the delay arithmetic depends on.
DelayParams ==
    {Params({"Exception"}, t, d, md, b, j, TRUE) :
        t \in {MaxTries, MaxTries + 1},
        d \in 0 .. MaxDelay,
        md \in {None} \cup {Some(m) : m \in 0 .. MaxCap},
        b \in 0 .. MaxBackoff,
        j \in {Number(n) : n \in 0 .. MaxJitter}
              \cup {Range(lo, lo + 2) : lo \in 0 .. MaxJitter}}

ArgTuples == {<<>>, <<"a">>, <<"a", "b">>}

InitHistory ==
    /\ pc = "start"
    /\ config = None
    /\ f_args = None
    /\ f_kwargs = None
    /\ _delay = 0
    /\ _tries = 0
    /\ calls = <<>>
    /\ raised = <<>>
    /\ sleeps = <<>>
    /\ warnings = <<>>
    /\ events = <<>>
    /\ decorated = Running
    /\ runs = <<>>
    /\ result = Running

InitAttempts ==
    /\ f \in Callables
    /\ params \in AttemptParams
    /\ \/ /\ entry = "retry_call"
          /\ \/ args = None /\ kwargs = None
             \/ args \in {Some(<<>>), Some(<<"a">>)} /\ kwargs = Some(<<>>)
       \/ /\ entry = "retry"
          /\ args \in {Some(a) : a \in ArgTuples}
          /\ kwargs = Some(<<>>)

InitDelays ==
    /\ f = [prefix |-> <<>>, rest |-> "ValueError"]
    /\ params \in DelayParams
    /\ entry = "retry_call"
    /\ args = Some(<<>>)
    /\ kwargs = Some(<<>>)

Init == InitHistory /\ (InitAttempts \/ InitDelays)

\* ------------------------------------------------------------- api.py
\* The config dict of retry (api.py:100-108) and retry_call (api.py:149-157).
MakeConfig(p) ==
    [exceptions |-> p.exceptions,
     tries      |-> p.tries,
     delay      |-> p.delay,
     max_delay  |-> p.max_delay,
     backoff    |-> p.backoff,
     jitter     |-> IF p.jitter.num THEN <<p.jitter.lo, p.jitter.lo>>
                                    ELSE <<p.jitter.lo, p.jitter.hi>>,
     logger     |-> p.logger]

\* random.uniform(a, b) = a + (b - a) * random() with 0 <= random() < 1, on the grid of
\* the integers: a and the points between the two ends, and the end b itself when the
\* floating-point sum rounds to it. With a = 0 the result is b * random(), never b;
\* with a >= 1 it can be b (1 + 2 * (1 - 2^-53) is 3.0), as for the ranges used here.
uniform(a, b) ==
    IF a = b THEN {a}
    ELSE IF a = 0 THEN (IF b > 0 THEN 0 .. (b - 1) ELSE (b + 1) .. 0)
    ELSE IF a < b THEN a .. b ELSE b .. a

\* A jitter sampled between 0 and the upper end, whatever the lower end is.
jitter_from_zero(cfg) == uniform(0, cfg.jitter[2])

\* A jitter sampled on both sides of zero.
jitter_symmetric(cfg) == uniform(0 - cfg.jitter[2], cfg.jitter[2])

\* api.py:66-70; config["jitter"] is always a tuple after MakeConfig.
jitter_values(cfg) == uniform(cfg.jitter[1], cfg.jitter[2])

\* A delay update that slipped under the `if config["logger"]` block.
next_delay_when_logged(d, cfg, jitter_value) ==
    IF ~cfg.logger THEN d
    ELSE IF Truthy(cfg.max_delay)
    THEN min(d * cfg.backoff + jitter_value, the(cfg.max_delay))
    ELSE d * cfg.backoff + jitter_value

\* api.py:71-75
next_delay(d, cfg, jitter_value) ==
    IF Truthy(cfg.max_delay)
    THEN min(d * cfg.backoff + jitter_value, the(cfg.max_delay))
    ELSE d * cfg.backoff + jitter_value

\* api.py:54
loop_continues(t) == t > 0

\* api.py:58
decrement(t) == t - (IF t > 0 THEN 1 ELSE 0)

\* A budget check that gives up one attempt too early.
exhausted_early(t) == t <= 1

\* api.py:59
exhausted(t) == t = 0

\* api.py:62
logs(cfg) == cfg.logger

\* A message that reports the configured delay instead of the current one.
warning_initial_delay(e, d) == [exc |-> e, delay |-> params.delay]

\* api.py:63: the message names the exception e and the delay d about to be slept.
warning(e, d) == [exc |-> e, delay |-> d]

\* A retry layer whose delay accumulator outlives the run that grew it.
Enter_keeps_delay(cfg, a, kw) ==
    /\ f_args' = a
    /\ f_kwargs' = kw
    /\ _delay' = IF runs = <<>> THEN cfg.delay ELSE _delay
    /\ _tries' = cfg.tries
    /\ result' = Running
    /\ pc' = "loop"

\* api.py:51-52: the locals of a fresh run of __retry_internal
Enter(cfg, a, kw) ==
    /\ f_args' = a
    /\ f_kwargs' = kw
    /\ _delay' = cfg.delay
    /\ _tries' = cfg.tries
    /\ result' = Running
    /\ pc' = "loop"

\* retry_call (api.py:120-158)
retry_call ==
    /\ pc = "start"
    /\ entry = "retry_call"
    /\ config' = Some(MakeConfig(params))
    /\ Enter(MakeConfig(params), args, kwargs)
    /\ UNCHANGED <<inputs, history, decorated, runs>>

\* retry(...)(f) (api.py:78-117): builds the config; retry_decorator returns what
\* `@decorator` made of its inner function, i.e. compat.decor.
retry ==
    /\ pc = "start"
    /\ entry = "retry"
    /\ config' = Some(MakeConfig(params))
    /\ pc' = "decorated"
    /\ UNCHANGED <<inputs, locals, history, decorated, runs, result>>

\* compat.decor(f) (compat.py:13-18), reached by calling the decorated name with
\* the user's arguments: it takes exactly one argument and returns a function.
decor_accepts(a) == Len(a) = 1

decor ==
    /\ pc = "decorated"
    /\ IF decor_accepts(the(args))
       THEN /\ decorated' = Returned("function")
            /\ pc' = "wrapped"
       ELSE /\ decorated' = Raised(Exc("TypeError", 0, "decor"))
            /\ pc' = "done"
    /\ UNCHANGED <<inputs, config, locals, history, runs, result>>

\* compat.wrapper (compat.py:15-16) calling api.wrapper (api.py:112-113): the
\* function returned by decor, called with some more arguments.
wrapper ==
    /\ pc = "wrapped"
    /\ \E more \in {<<>>, <<"b">>} :
          Enter(the(config), Some(the(args) \o more), Some(<<>>))
    /\ UNCHANGED <<inputs, config, history, decorated, runs>>

\* The call expression of api.py:56 unpacks f_args and f_kwargs: unpacking None raises
\* TypeError before f is entered.
CallFails == IsNone(f_args) \/ IsNone(f_kwargs)

\* The number of the evaluation of api.py:56 about to be made: every earlier one raised.
Attempt == Len(raised) + 1

AttemptOutcome ==
    IF CallFails THEN "TypeError" ELSE Outcome(f, Len(calls) + 1)

AttemptExc ==
    Exc(AttemptOutcome, Attempt, IF CallFails THEN "call" ELSE "f")

CallsAfter ==
    IF CallFails THEN calls
    ELSE Append(calls, [args |-> the(f_args), kwargs |-> the(f_kwargs)])

EventsAfterCall ==
    IF CallFails THEN events ELSE Append(events, "call")

\* A retry layer that keeps the first failure it caught and raises that one.
reraise_first(earlier, e) == IF earlier = <<>> THEN e ELSE earlier[1]

\* api.py:60: a bare `raise` re-raises the exception being handled, e; `earlier`
\* are the exceptions caught before it.
reraise(earlier, e) == e

\* api.py:54 false: the loop is left and the function ends without a return.
loop_exit ==
    /\ pc = "loop"
    /\ ~loop_continues(_tries)
    /\ result' = Returned("None")
    /\ pc' = "done"
    /\ UNCHANGED <<inputs, config, locals, history, decorated, runs>>

\* api.py:55-56: f returns.
attempt_return ==
    /\ pc = "loop"
    /\ loop_continues(_tries)
    /\ AttemptOutcome = "ok"
    /\ calls' = CallsAfter
    /\ events' = EventsAfterCall
    /\ result' = Returned("ok")
    /\ pc' = "done"
    /\ UNCHANGED <<inputs, config, locals, raised, sleeps, warnings, decorated, runs>>

\* api.py:57-60: the exception is not caught, or it is caught and re-raised.
attempt_raise ==
    /\ pc = "loop"
    /\ loop_continues(_tries)
    /\ AttemptOutcome # "ok"
    /\ calls' = CallsAfter
    /\ events' = EventsAfterCall
    /\ raised' = Append(raised, AttemptExc)
    /\ IF Matches(AttemptOutcome, the(config).exceptions)
       THEN /\ exhausted(decrement(_tries))
            /\ _tries' = decrement(_tries)
            /\ result' = Raised(reraise(raised, AttemptExc))
       ELSE /\ _tries' = _tries
            /\ result' = Raised(AttemptExc)
    /\ pc' = "done"
    /\ UNCHANGED <<inputs, config, f_args, f_kwargs, _delay, sleeps, warnings, decorated, runs>>

\* api.py:57-75: the exception is caught and tries remain: warn, sleep, new delay.
\* time.sleep raises ValueError on a negative duration.
attempt_retry ==
    /\ pc = "loop"
    /\ loop_continues(_tries)
    /\ AttemptOutcome # "ok"
    /\ Matches(AttemptOutcome, the(config).exceptions)
    /\ ~exhausted(decrement(_tries))
    /\ _tries' = decrement(_tries)
    /\ calls' = CallsAfter
    /\ raised' = Append(raised, AttemptExc)
    /\ warnings' = IF logs(the(config))
                   THEN Append(warnings, warning(AttemptExc, _delay))
                   ELSE warnings
    /\ LET logged == IF logs(the(config)) THEN Append(EventsAfterCall, "warning")
                                          ELSE EventsAfterCall
       IN events' = Append(logged, "sleep")
    /\ sleeps' = Append(sleeps, _delay)
    /\ IF _delay < 0
       THEN /\ result' = Raised(Exc("ValueError", Attempt, "sleep"))
            /\ pc' = "done"
            /\ _delay' = _delay
       ELSE /\ \E jitter_value \in jitter_values(the(config)) :
                  _delay' = next_delay(_delay, the(config), jitter_value)
            /\ UNCHANGED <<result, pc>>
    /\ UNCHANGED <<inputs, config, f_args, f_kwargs, decorated, runs>>

\* The function obtained from the decorated name is called once more (api.py:112-113,
\* same closure, same config dict); what the finished run left in its locals is kept
\* in `runs`, the observations start afresh.
again ==
    /\ pc = "done"
    /\ entry = "retry"
    /\ result.status # "running"
    /\ Len(runs) < MaxRuns - 1
    /\ runs' = Append(runs, [tries |-> _tries, delay |-> _delay, result |-> result])
    /\ calls' = <<>>
    /\ raised' = <<>>
    /\ sleeps' = <<>>
    /\ warnings' = <<>>
    /\ events' = <<>>
    /\ pc' = "wrapped"
    /\ UNCHANGED <<inputs, config, locals, decorated, result>>

Next ==
    \/ retry_call
    \/ retry
    \/ decor
    \/ wrapper
    \/ loop_exit
    \/ attempt_return
    \/ attempt_raise
    \/ attempt_retry
    \/ again

Spec == Init /\ [][Next]_vars

\* ------------------------------------------------------------- properties
\* A run of __retry_internal has finished.
ExecDone == pc = "done" /\ result.status # "running"

\* The tries argument: the attempt budget N of the policy.
Budget == params.tries

\* A failure type the policy retries.
Matchable(t) == t # "ok" /\ Matches(t, params.exceptions)

\* Every invocation of f raises a failure the policy retries.
AlwaysRaisesMatchable == \A k \in 1 .. (Len(f.prefix) + 1) : Matchable(Outcome(f, k))

\* f raises a matchable failure on its first K invocations and then returns.
FailsThenSucceeds(K) ==
    /\ Len(f.prefix) = K
    /\ f.rest = "ok"
    /\ \A k \in 1 .. K : Matchable(f.prefix[k])

\* The run ended because the budget was used up by caught failures (api.py:59-60).
Exhausted ==
    /\ ExecDone
    /\ result.status = "raised"
    /\ result.exc.origin # "sleep"
    /\ Matches(result.exc.type, params.exceptions)

\* C1: with tries = N > 0 and a callable whose every invocation raises a matchable
\* failure, f is never invoked more than N times, no value is returned, and the
\* finished run has invoked f exactly N times and propagates a failure.
C1_AlwaysFailingInvokedNTimes ==
    (Budget > 0 /\ AlwaysRaisesMatchable) =>
        /\ Len(calls) <= Budget
        /\ result.status # "returned"
        /\ ExecDone => (Len(calls) = Budget /\ result.status = "raised")

\* C2: with tries = -1 (unlimited) and a callable that raises a matchable failure K
\* times and then succeeds, the finished run has invoked f exactly K + 1 times and
\* returns f's value; no failure propagates.
C2_UnlimitedRetriesUntilSuccess ==
    (ExecDone /\ Budget = -1 /\ \E K \in 0 .. MaxPrefix : FailsThenSucceeds(K)) =>
        /\ Len(calls) = Len(f.prefix) + 1
        /\ result = Returned("ok")

\* C3: for tries positive or -1, when the first invocation of f raises a failure
\* the policy does not match, f is invoked exactly once and that failure propagates
\* with no sink notification and no sleep.
C3_UnmatchedPropagatesAtOnce ==
    (ExecDone /\ (Budget > 0 \/ Budget = -1)
        /\ Outcome(f, 1) # "ok" /\ ~Matchable(Outcome(f, 1))) =>
        /\ Len(calls) = 1
        /\ result = Raised(Exc(Outcome(f, 1), 1, "f"))
        /\ warnings = <<>>
        /\ sleeps = <<>>

\* C4: when a budget N > 1 is exhausted by matchable failures, the failure that
\* propagates is the instance raised by the N-th, most recent, evaluation of the
\* call, with the type it was raised with, and none of the earlier instances.
C4_LastFailurePropagates ==
    (Exhausted /\ Budget > 1) =>
        /\ Len(raised) = Budget
        /\ result.exc = raised[Budget]
        /\ \A i \in 1 .. (Budget - 1) : result.exc # raised[i]
        /\ ~CallFails => (Len(calls) = Budget /\ result.exc.type = Outcome(f, Budget))

\* C4 witness: a budget of MaxTries used up by f's failures, the last one propagating.
C4_Witness ==
    /\ Exhausted
    /\ Budget = MaxTries
    /\ Len(calls) = MaxTries
    /\ result.exc = Exc(Outcome(f, MaxTries), MaxTries, "f")
    /\ Outcome(f, 1) # Outcome(f, MaxTries)

RECURSIVE Pow(_, _)
Pow(b, n) == IF n = 0 THEN 1 ELSE b * Pow(b, n - 1)

\* C5: with zero jitter the n-th sleep lasts min(d0 * b^(n-1), m) when a max delay m is
\* configured and d0 * b^(n-1) when none is, for every n >= 1 and also when d0 > m.
C5_ZeroJitterDelaySequence ==
    (params.jitter = Number(0)) =>
        \A n \in 1 .. Len(sleeps) :
            sleeps[n] = IF IsNone(params.max_delay)
                        THEN params.delay * Pow(params.backoff, n - 1)
                        ELSE min(params.delay * Pow(params.backoff, n - 1),
                                 the(params.max_delay))

\* C6: when a max delay m (any value other than None) is configured, the delay after
\* every update round is at most m, whatever the backoff and the jitter.
C6_DelayNeverExceedsCap ==
    (~IsNone(params.max_delay) /\ Len(sleeps) >= 1) =>
        _delay <= the(params.max_delay)

\* The C7 scenario: retry_call(f, tries=3, delay=1, backoff=2) without f_args and
\* f_kwargs, f raising ValueError twice and then returning "ok".
C7_Scenario ==
    /\ entry = "retry_call"
    /\ args = None
    /\ kwargs = None
    /\ params = Params({"Exception"}, 3, 1, None, 2, Number(0), TRUE)
    /\ f = [prefix |-> <<"ValueError", "ValueError">>, rest |-> "ok"]

\* C7: the scenario returns "ok" after exactly 3 invocations of f, two sleeps of 1 then
\* 2, and two sink notifications.
C7_ScenarioReturnsOk ==
    (C7_Scenario /\ ExecDone) =>
        /\ result = Returned("ok")
        /\ Len(calls) = 3
        /\ sleeps = <<1, 2>>
        /\ Len(warnings) = 2

\* C8: a call through the decorated name is a run of the executor on the user's
\* arguments: when it has finished, the executor has run with f_args = args, every
\* invocation of f received those arguments, the call's outcome is the executor's, and
\* no failure comes from the adapter itself.
C8_DecoratedCallIsExecutorRun ==
    (entry = "retry" /\ decorated.status # "running") =>
        /\ f_args = args
        /\ \A i \in 1 .. Len(calls) : calls[i].args = the(args)
        /\ result.status # "running"
        /\ decorated = result
        /\ decorated.exc.origin # "decor"

\* C9: a finished run has invoked f, and either returns the value its last invocation
\* returned or propagates, unchanged, the failure its last invocation raised.
C9_ReturnsOrPropagatesLast ==
    ExecDone =>
        /\ Len(calls) >= 1
        /\ \/ /\ Outcome(f, Len(calls)) = "ok"
              /\ result = Returned("ok")
           \/ /\ Outcome(f, Len(calls)) # "ok"
              /\ result = Raised(Exc(Outcome(f, Len(calls)), Len(calls), "f"))

\* C10: with a sink configured, a run that ends in success has notified the sink once
\* per invocation but the last; a run that exhausts a budget N > 0 has notified it N - 1
\* times; the failure that propagates is never among the notified ones.
C10_SinkNotificationCount ==
    (ExecDone /\ params.logger) =>
        /\ result = Returned("ok") => Len(warnings) = Len(calls) - 1
        /\ (Exhausted /\ Budget > 0) => Len(warnings) = Budget - 1
        /\ result.status = "raised" =>
              \A i \in 1 .. Len(warnings) : warnings[i].exc # result.exc

\* C10 witness: a success on the third invocation, both earlier failures having been
\* notified.
C10_Witness ==
    /\ ExecDone
    /\ params.logger
    /\ result = Returned("ok")
    /\ Len(calls) = 3
    /\ Len(warnings) = 2

\* The delay before the n-th sleep under a fixed jitter j and no max delay, computed
\* from the policy alone: D(1) = d0, D(n + 1) = D(n) * b + j.
RECURSIVE FixedJitterDelay(_)
FixedJitterDelay(n) ==
    IF n = 1 THEN params.delay
    ELSE FixedJitterDelay(n - 1) * params.backoff + params.jitter.lo

\* C11: with a fixed jitter j and no max delay, consecutive sleeps satisfy
\* delay' = delay * b + j, the whole sequence of sleeps is determined by the policy
\* (so two runs with the same policy and failures sleep alike), and with b = 1, j = 0
\* every sleep lasts the initial delay.
C11_FixedJitterRecurrence ==
    (params.jitter.num /\ IsNone(params.max_delay)) =>
        /\ \A n \in 1 .. (Len(sleeps) - 1) :
              sleeps[n + 1] = sleeps[n] * params.backoff + params.jitter.lo
        /\ \A n \in 1 .. Len(sleeps) : sleeps[n] = FixedJitterDelay(n)
        /\ (params.backoff = 1 /\ params.jitter.lo = 0) =>
              \A n \in 1 .. Len(sleeps) : sleeps[n] = params.delay
        /\ Len(sleeps) >= 1 =>
              _delay = sleeps[Len(sleeps)] * params.backoff + params.jitter.lo

\* C11 witness: three sleeps of 1, 3, 7 under delay 1, backoff 2, fixed jitter 1.
C11_Witness ==
    /\ params.jitter = Number(1)
    /\ IsNone(params.max_delay)
    /\ params.delay = 1
    /\ params.backoff = 2
    /\ sleeps = <<1, 3, 7>>

\* The delay computed by the n-th update round: the next sleep, or the current delay.
DelayAfterRound(n) == IF n < Len(sleeps) THEN sleeps[n + 1] ELSE _delay

\* C12: with a range jitter (lo, hi), lo < hi, every update round adds an addend a with
\* lo <= a < hi: without a max delay the new delay d' satisfies
\* d * b + lo <= d' < d * b + hi, and with a max delay configured d' is at most it.
C12_RangeJitterBounds ==
    (~params.jitter.num /\ params.jitter.lo < params.jitter.hi) =>
        \A n \in 1 .. Len(sleeps) :
            IF IsNone(params.max_delay)
            THEN /\ sleeps[n] * params.backoff + params.jitter.lo <= DelayAfterRound(n)
                 /\ DelayAfterRound(n) < sleeps[n] * params.backoff + params.jitter.hi
            ELSE DelayAfterRound(n) <= the(params.max_delay)

\* C13: with tries = 1 a finished run consists of exactly one invocation of f, no
\* sleep and no sink notification, whatever f does.
C13_SingleAttempt ==
    (ExecDone /\ Budget = 1) =>
        /\ Len(calls) = 1
        /\ sleeps = <<>>
        /\ warnings = <<>>

\* C14: the events of a run are ordered invocation, then one sink notification if a
\* sink is configured (none otherwise), then one sleep, then the next invocation;
\* nothing precedes the first invocation and nothing follows the last one.
C14_EventOrder ==
    /\ events # <<>> => events[1] = "call"
    /\ \A i \in 1 .. (Len(events) - 1) :
          /\ events[i] = "call" =>
                events[i + 1] = (IF params.logger THEN "warning" ELSE "sleep")
          /\ events[i] = "warning" => events[i + 1] = "sleep"
          /\ events[i] = "sleep" => events[i + 1] = "call"
    /\ (ExecDone /\ events # <<>>) => events[Len(events)] = "call"
    /\ (~ExecDone /\ events # <<>>) => events[Len(events)] = "sleep"

\* C15: every sink notification reports the failure raised by the evaluation of the
\* call just before it and the duration of the sleep right after it, i.e. the delay
\* before the update for the next round; the first one reports the initial delay.
C15_NotificationContent ==
    params.logger =>
        /\ Len(warnings) = Len(sleeps)
        /\ \A i \in 1 .. Len(warnings) :
              /\ warnings[i].exc = raised[i]
              /\ warnings[i].exc.attempt = i
              /\ warnings[i].delay = sleeps[i]
              /\ ~CallFails =>
                    warnings[i].exc = Exc(Outcome(f, i), i, "f")
        /\ warnings # <<>> => warnings[1].delay = params.delay

\* C15 witness: two notifications reporting delays 1 and 2, the delay being 4 by now.
C15_Witness ==
    /\ params.logger
    /\ Len(calls) >= 2
    /\ Len(warnings) = 2
    /\ warnings[1].delay = 1
    /\ warnings[2].delay = 2
    /\ sleeps = <<1, 2>>
    /\ _delay = 4

\* C16: the policy is never modified once built, and every run of the executor, also
\* one that follows earlier runs through the same decorated function, starts with
\* _tries = tries and _delay = delay whatever the earlier runs left behind.
C16_FreshLocalsEachRun ==
    [][/\ params' = params
       /\ config # None => config' = config
       /\ (pc # "loop" /\ pc' = "loop") =>
             /\ _tries' = params.tries
             /\ _delay' = params.delay
             /\ the(config') = MakeConfig(params)]_vars

\* C16 witness: a second run about to make its first attempt with fresh locals, after
\* a first run that used up its tries and grew its delay.
C16_Witness ==
    /\ Len(runs) = 1
    /\ runs[1].tries = 0
    /\ runs[1].delay > params.delay
    /\ runs[1].result.status = "raised"
    /\ pc = "loop"
    /\ calls = <<>>
    /\ raised = <<>>
    /\ _tries = params.tries
    /\ _delay = params.delay

\* C17: with a finite budget N > 0 a run makes at most N invocations and at most N - 1
\* sleeps, and it has finished only because an invocation of f returned, an invocation
\* raised a failure the policy does not match, or the N-th invocation raised a
\* matchable failure.
C17_FinishesWithinBudget ==
    Budget > 0 =>
        /\ Len(calls) <= Budget
        /\ Len(sleeps) <= Budget - 1
        /\ ExecDone =>
              /\ Len(calls) >= 1
              /\ \/ /\ Outcome(f, Len(calls)) = "ok"
                    /\ result = Returned("ok")
                 \/ /\ ~Matchable(Outcome(f, Len(calls)))
                    /\ result = Raised(Exc(Outcome(f, Len(calls)), Len(calls), "f"))
                 \/ /\ Matchable(Outcome(f, Len(calls)))
                    /\ Len(calls) = Budget
                    /\ result = Raised(Exc(Outcome(f, Budget), Budget, "f"))

\* What a run does, computed from the callable, the arguments and the policy without
\* its sink: the outcome of the k-th evaluation of the call, the attempt that ends the
\* run, and the result.
CallOutcome(k) == IF CallFails THEN "TypeError" ELSE Outcome(f, k)

Stops(k) == CallOutcome(k) = "ok" \/ ~Matches(CallOutcome(k), params.exceptions)

PredictedAttempts ==
    IF Budget <= 0 THEN 0
    ELSE IF \E k \in 1 .. Budget : Stops(k)
    THEN CHOOSE k \in 1 .. Budget : Stops(k) /\ \A j \in 1 .. (k - 1) : ~Stops(j)
    ELSE Budget

PredictedResult ==
    IF Budget <= 0 THEN Returned("None")
    ELSE IF CallOutcome(PredictedAttempts) = "ok" THEN Returned("ok")
    ELSE Raised(Exc(CallOutcome(PredictedAttempts), PredictedAttempts,
                    IF CallFails THEN "call" ELSE "f"))

\* C18: the invocations, the sleeps and the result of a finished run are determined by
\* the callable, the arguments and the policy without its sink, so two runs that differ
\* only in the sink agree on them; with no sink no notification is ever emitted.
C18_SinkDoesNotInfluenceRun ==
    /\ ~params.logger => warnings = <<>>
    /\ ExecDone =>
          /\ Len(calls) = (IF CallFails THEN 0 ELSE PredictedAttempts)
          /\ Len(sleeps) = (IF PredictedAttempts = 0 THEN 0 ELSE PredictedAttempts - 1)
          /\ (params.jitter.num /\ IsNone(params.max_delay)) =>
                \A n \in 1 .. Len(sleeps) : sleeps[n] = FixedJitterDelay(n)
          /\ result = PredictedResult

\* C18 witness: a run without a sink that slept 1 then 2, notified nothing and returned
\* f's value on the third invocation.
C18_Witness ==
    /\ ExecDone
    /\ ~params.logger
    /\ sleeps = <<1, 2>>
    /\ warnings = <<>>
    /\ Len(calls) = 3
    /\ result = Returned("ok")

\* The policy has no negative number in it.
NonNegativePolicy ==
    /\ params.delay >= 0
    /\ params.backoff >= 0
    /\ params.jitter.lo >= 0
    /\ params.jitter.hi >= 0
    /\ IsNone(params.max_delay) \/ the(params.max_delay) >= 0

\* C19: under a policy without negative numbers the delay is never negative, every
\* sleep is requested with a non-negative duration, and no failure comes from the
\* sleep itself.
C19_DelayNonNegative ==
    NonNegativePolicy =>
        /\ _delay >= 0
        /\ \A n \in 1 .. Len(sleeps) : sleeps[n] >= 0
        /\ result.exc.origin # "sleep"
        /\ \A i \in 1 .. Len(runs) : runs[i].result.exc.origin # "sleep"

\* C19 witness: an initial delay of 2 that a backoff of 0 and a sampled jitter of 0
\* brought down to a second sleep of 0, under a configured max delay.
C19_Witness ==
    /\ NonNegativePolicy
    /\ params.delay = 2
    /\ params.backoff = 0
    /\ params.jitter = Range(0, 2)
    /\ ~IsNone(params.max_delay)
    /\ sleeps = <<2, 0>>
    /\ _delay >= 0

====
